---- MODULE Spec2Model ----
(***************************************************************************)
(* Model of the Shopify webhook automation (orders/paid and                *)
(* fulfillments/create) of src/unnamed/part_000: the tag codec, the        *)
(* TEST_MODE write gate, the two handlers at the granularity of one        *)
(* gateway call per step, the platform they talk to, and the HTTP handler  *)
(* with its signature check.                                               *)
(***************************************************************************)
EXTENDS Integers, Sequences, FiniteSets, TLC

\* ------------------------------------------------------------------ bounds
MaxInv == 2        \* invocation slots that may run interleaved
MaxEvents == 3     \* deliveries in one behaviour of Spec
MaxErrors == 1     \* injected gateway failures in one behaviour
MaxHist == 3       \* deliveries in one behaviour of SpecSeq
MaxFailAt == 10    \* SpecSeq: the gateway call of an invocation that may fail
MaxTwin == 3       \* deliveries in one behaviour of SpecTwin
MaxPrefix == 3     \* SpecDup: deliveries before the duplicated one
MaxRequests == 2   \* requests in one behaviour of SpecHttp
MaxHttpFailAt == 2 \* SpecHttp: the gateway call of a request that may fail
MaxTagLen == 2     \* SpecCodec: tokens in a tag
MaxTags == 2       \* SpecCodec: tags in a set or a list
MaxTextLen == 3    \* SpecCodec: tokens in a tag text

\* --------------------------------------------------------------- constants
SHIPPING_ACCUMULA == "Accumula da Nami!"
SHIPPING_SDA == "SDA Express 24/48h"
SHIPPING_OTHER == "Ritiro in negozio"

\* A text is a sequence of tokens: a word, the comma or a blank.  A tag is a
\* text; the four tags of the program are one word each.
Comma == ","
Blank == " "
TAG_GIACENZA == <<"GIACENZA">>
TAG_SPEDISCI_ORA == <<"SPEDISCI_ORA">>
TAG_MERGE_IN_CORSO == <<"MERGE_IN_CORSO">>
TAG_MERGE_OK == <<"MERGE_OK">>
TAG_VIP == <<"VIP">>

Null == "null"

\* ------------------------------------------------------------ text helpers
RECURSIVE Split(_)
\* String.prototype.split(","): the pieces between commas ("" gives [""]).
Split(s) ==
  IF \A k \in 1..Len(s) : s[k] # Comma THEN <<s>>
  ELSE LET k == CHOOSE j \in 1..Len(s) :
                  s[j] = Comma /\ \A m \in 1..(j - 1) : s[m] # Comma
       IN <<SubSeq(s, 1, k - 1)>> \o Split(SubSeq(s, k + 1, Len(s)))

RECURSIVE Trim(_)
\* String.prototype.trim(): drops the leading and trailing blanks.
Trim(s) ==
  IF s = <<>> THEN s
  ELSE IF Head(s) = Blank THEN Trim(Tail(s))
  ELSE IF s[Len(s)] = Blank THEN Trim(SubSeq(s, 1, Len(s) - 1))
  ELSE s

RECURSIVE Join(_, _)
\* Array.prototype.join(sep).
Join(arr, sep) ==
  IF arr = <<>> THEN <<>>
  ELSE IF Len(arr) = 1 THEN arr[1]
  ELSE arr[1] \o sep \o Join(Tail(arr), sep)

MapTrim(arr) == [k \in 1..Len(arr) |-> Trim(arr[k])]

Truthy(s) == s # <<>>

Range(f) == {f[x] : x \in DOMAIN f}

Includes(arr, x) == \E k \in 1..Len(arr) : arr[k] = x

\* Set.prototype.add on an insertion-ordered set.
SetAdd(s, t) == IF Includes(s, t) THEN s ELSE Append(s, t)

\* Set.prototype.delete.
SetDelete(s, t) == SelectSeq(s, LAMBDA x : x # t)

RECURSIVE NewSet(_)
\* new Set(array): the elements in order of first occurrence.
NewSet(arr) ==
  IF arr = <<>> THEN <<>>
  ELSE LET r == NewSet(SubSeq(arr, 1, Len(arr) - 1))
       IN SetAdd(r, arr[Len(arr)])

RECURSIVE AddAll(_, _)
AddAll(s, ts) == IF ts = <<>> THEN s ELSE AddAll(SetAdd(s, Head(ts)), Tail(ts))

RECURSIVE DeleteAll(_, _)
DeleteAll(s, ts) ==
  IF ts = <<>> THEN s ELSE DeleteAll(SetDelete(s, Head(ts)), Tail(ts))

\* ---------------------------------------------------------------- Utils tags
\* Variant: the pieces are not trimmed.
parseTagsNoTrim(tagsStr) == NewSet(SelectSeq(Split(tagsStr), Truthy))

parseTags(tagsStr) ==
  NewSet(SelectSeq(MapTrim(Split(tagsStr)), Truthy))

tagsToString(set) == Join(set, <<Comma, Blank>>)

addTags(tagsStr, tagList) == tagsToString(AddAll(parseTags(tagsStr), tagList))

\* Variant: the first tag of the list alone is removed.
removeTagsFirstOnly(tagsStr, tagList) ==
  tagsToString(DeleteAll(parseTags(tagsStr),
                         IF tagList = <<>> THEN <<>> ELSE <<Head(tagList)>>))

removeTags(tagsStr, tagList) ==
  tagsToString(DeleteAll(parseTags(tagsStr), tagList))

hasTag(tagsStr, tag) == Includes(parseTags(tagsStr), tag)

\* ------------------------------------------------------------------ world
Orders == {"A", "B", "C"}
\* The order in which the platform lists orders.
OrderSeq == <<"A", "B", "C">>
\* The fulfillment orders the platform made for each order.
FoOf == [A |-> <<"A1", "A2">>, B |-> <<"B1">>, C |-> <<"C1">>]
FoIds == UNION {Range(FoOf[o]) : o \in Orders}

VARIABLES
  tags,          \* platform: order -> set of tags
  foStatus,      \* platform: fulfillment order -> OPEN, ON_HOLD, CLOSED, CANCELLED
  fulfillments,  \* platform: the fulfillments created
  foVisible,     \* platform: order -> its fulfillment orders are queryable yet
  shipping,      \* platform: order -> title of its first shipping line
  customer,      \* platform: order -> customer id or Null
  TEST_MODE,     \* process.env.TEST_MODE
  inv,           \* slot -> the invocation running in it
  nEvents,       \* deliveries so far
  nErrors,       \* injected gateway failures so far
  hist,          \* SpecSeq: the invocations completed, in order
  twin,          \* SpecTwin: the same deliveries replayed with TEST_MODE on
  once,          \* SpecDup: the tags one delivery of the event leaves
  SHOPIFY_WEBHOOK_SECRET,  \* process.env.SHOPIFY_WEBHOOK_SECRET or Null
  response,      \* SpecHttp: the last request and the response it got
  codec          \* SpecCodec: the inputs of the tag codec and its results

vars == <<tags, foStatus, fulfillments, foVisible, shipping, customer,
          TEST_MODE, inv, nEvents, nErrors, hist, twin, once,
          SHOPIFY_WEBHOOK_SECRET, response, codec>>

\* The platform as one value.
Platform == [tags |-> tags, fo |-> foStatus, ful |-> fulfillments,
             vis |-> foVisible, ship |-> shipping, cust |-> customer]

\* ------------------------------------------------------- platform (gateway)
\* The platform keeps tags as a set and returns them in alphabetical order.
TagOrder == <<TAG_GIACENZA, TAG_MERGE_IN_CORSO, TAG_MERGE_OK,
              TAG_SPEDISCI_ORA, TAG_VIP>>
SortedTags(S) == SelectSeq(TagOrder, LAMBDA t : t \in S)

\* order.fulfillment_status: null | "partial" | "fulfilled".
FulfillmentStatus(P, o) ==
  LET mine == {f \in Range(FoOf[o]) : P.fo[f] # "CANCELLED"}
      shipped == {f \in mine : P.fo[f] = "CLOSED"}
  IN IF shipped = {} THEN Null
     ELSE IF shipped = mine THEN "fulfilled" ELSE "partial"

VisibleFos(P, o) == IF P.vis[o] THEN FoOf[o] ELSE <<>>

\* GraphQL query OrderBasic / FOIds.
GqlOrder(P, o) ==
  [tags |-> SortedTags(P.tags[o]), nodes |-> VisibleFos(P, o)]

\* GET orders/{id}.json
RestOrder(P, o) ==
  [tags |-> Join(SortedTags(P.tags[o]), <<Comma, Blank>>),
   customer |-> P.cust[o], title |-> P.ship[o]]

\* GET orders.json?customer_id=
RestOrders(P, c) ==
  LET mine == SelectSeq(OrderSeq, LAMBDA o : P.cust[o] = c)
  IN [k \in 1..Len(mine) |->
        [id |-> mine[k],
         tags |-> Join(SortedTags(P.tags[mine[k]]), <<Comma, Blank>>),
         fulfillment_status |-> FulfillmentStatus(P, mine[k])]]

\* GET orders/{id}/fulfillment_orders.json
RestFulfillmentOrders(P, o) ==
  LET fs == VisibleFos(P, o)
  IN [k \in 1..Len(fs) |-> [id |-> fs[k], status |-> P.fo[fs[k]]]]

\* PUT orders/{id}.json: the platform splits the text on commas and trims.
PutOrderTags(P, o, text) ==
  [P EXCEPT !.tags[o] = Range(SelectSeq(MapTrim(Split(text)), Truthy))]

\* mutation fulfillmentOrderHold: userErrors unless the unit is open.
HoldResult(P, f) == IF P.fo[f] = "OPEN" THEN "ok" ELSE "warning"
HoldEffect(P, f) ==
  IF P.fo[f] = "OPEN" THEN [P EXCEPT !.fo[f] = "ON_HOLD"] ELSE P

\* mutation fulfillmentOrderReleaseHold: userErrors unless the unit is held.
ReleaseResult(P, f) == IF P.fo[f] = "ON_HOLD" THEN "ok" ELSE "warning"
ReleaseEffect(P, f) ==
  IF P.fo[f] = "ON_HOLD" THEN [P EXCEPT !.fo[f] = "OPEN"] ELSE P

\* POST fulfillments.json: rejected (non-2xx) unless the unit is open.
FulfillResult(P, f) == IF P.fo[f] = "OPEN" THEN "ok" ELSE "error"
FulfillEffect(P, f, info) ==
  IF P.fo[f] = "OPEN"
  THEN [P EXCEPT !.fo[f] = "CLOSED",
                 !.ful = @ \cup {[fo |-> f, info |-> info]}]
  ELSE P

\* ------------------------------------------------------------ TEST_MODE gate
\* A write either reaches the platform (its effect and its result) or, in
\* TEST_MODE, is logged and answered { skipped: true }.
\* Variant: the write goes out whatever TEST_MODE says.
shopifyRestWriteUngated(tm, P, effect, result) ==
  [plat |-> effect, res |-> result]

shopifyRestWrite(tm, P, effect, result) ==
  IF tm THEN [plat |-> P, res |-> "skipped"]
  ELSE [plat |-> effect, res |-> result]

\* Variant: the mutation goes out whatever TEST_MODE says.
shopifyGraphqlMutationUngated(tm, P, effect, result) ==
  [plat |-> effect, res |-> result]

shopifyGraphqlMutation(tm, P, effect, result) ==
  IF tm THEN [plat |-> P, res |-> "skipped"]
  ELSE [plat |-> effect, res |-> result]

\* -------------------------------------------------------------- invocations
Slots == 1..MaxInv

NoPayload ==
  [id |-> Null, title |-> Null, order_id |-> Null, tracking_number |-> Null,
   tracking_numbers |-> <<>>, tracking_company |-> Null, tracking_url |-> Null,
   tracking_urls |-> <<>>]

Idle ==
  [pc |-> "idle", topic |-> Null, payload |-> NoPayload, out |-> Null,
   writes |-> <<>>, tagsStr |-> <<>>, customerId |-> Null, foGids |-> <<>>,
   giacenze |-> <<>>, gi |-> 0, fos |-> <<>>, k |-> 0]

\* The webhook handler dispatches on the topic.
Start(topic, payload) ==
  [Idle EXCEPT !.pc = "start", !.topic = topic, !.payload = payload]

\* The handler returns `out`; what is kept of its locals is what it read
\* first: the trigger's tags and customer, the orders to merge, and the
\* fulfillment orders it found last.
Return(iv, out) ==
  [iv EXCEPT !.pc = "done", !.out = out, !.fos = <<>>, !.gi = 0, !.k = 0]

\* One write call as the handler issued it, with what came back.
Logged(iv, op, target, arg, res) ==
  [iv EXCEPT !.writes =
     Append(@, [op |-> op, target |-> target, arg |-> arg, res |-> res])]

\* Variants: the guard looks for one of the two tags only.
AlreadyHandledOnlyMergeOk(currentTagsArr) ==
  Includes(currentTagsArr, TAG_MERGE_OK)

AlreadyHandledOnlyInCorso(currentTagsArr) ==
  Includes(currentTagsArr, TAG_MERGE_IN_CORSO)

\* line 274: idempotence guard of the SDA branch.
AlreadyHandled(currentTagsArr) ==
  Includes(currentTagsArr, TAG_MERGE_OK)
    \/ Includes(currentTagsArr, TAG_MERGE_IN_CORSO)

\* Variant: the accumulate branch writes the tags back as they were.
WouldTagsAccumulaNoHold(currentTagsStr) == addTags(currentTagsStr, <<>>)

\* line 257 and line 279: the tags the paid handler writes.
WouldTagsAccumula(currentTagsStr) == addTags(currentTagsStr, <<TAG_GIACENZA>>)
\* Variant: the express branch forgets SPEDISCI_ORA.
WouldTagsSdaOnlyInCorso(currentTagsStr) ==
  addTags(currentTagsStr, <<TAG_MERGE_IN_CORSO>>)

WouldTagsSda(currentTagsStr) ==
  addTags(currentTagsStr, <<TAG_SPEDISCI_ORA, TAG_MERGE_IN_CORSO>>)

\* Variant: userErrors are thrown, so they end the invocation.
WarnUserErrorsThrow(iv, res) ==
  IF res = "warning" THEN Return(iv, "ERROR handled") ELSE iv

\* lines 200-201 and 218-219: userErrors of a hold or release-hold mutation are
\* logged with console.warn and the handler goes on.
WarnUserErrors(iv, res) == iv

\* Variant: the first fulfillment order alone is put on hold.
NextHoldFirstOnly(fulfillmentOrderGids, k) == 0

\* line 190: the fulfillment order after the k-th, or 0 after the last.
NextHold(fulfillmentOrderGids, k) ==
  IF k < Len(fulfillmentOrderGids) THEN k + 1 ELSE 0

\* One step of handleOrdersPaid: up to and including its next gateway call.
handleOrdersPaid(iv, P, tm) ==
  LET orderId == iv.payload.id
      shippingTitle == iv.payload.title
  IN
  CASE iv.pc = "start" ->
         IF orderId = Null THEN [inv |-> Return(iv, "OK (no order id)"), plat |-> P]
         ELSE
           LET live == GqlOrder(P, orderId)
               currentTagsArr == MapTrim(live.tags)
               currentTagsStr == Join(currentTagsArr, <<Comma, Blank>>)
               iv2 == [iv EXCEPT !.tagsStr = currentTagsStr,
                                 !.foGids = live.nodes]
           IN [plat |-> P,
               inv |->
                 IF shippingTitle = SHIPPING_ACCUMULA
                 THEN [iv2 EXCEPT !.pc = "paid_tag_accumula"]
                 ELSE IF shippingTitle = SHIPPING_SDA
                 THEN IF AlreadyHandled(currentTagsArr)
                      THEN Return(iv2, "SKIP already handled")
                      ELSE [iv2 EXCEPT !.pc = "paid_tag_sda"]
                 ELSE Return(iv2, "OK ignored shipping method")]
    [] iv.pc = "paid_tag_accumula" ->
         LET wouldTags == WouldTagsAccumula(iv.tagsStr)
             w == shopifyRestWrite(tm, P, PutOrderTags(P, orderId, wouldTags), "ok")
             iv2 == Logged(iv, "tags", orderId, wouldTags, w.res)
         IN [plat |-> w.plat,
             inv |-> IF Len(iv.foGids) > 0
                     THEN [iv2 EXCEPT !.pc = "paid_hold", !.k = 1]
                     ELSE Return(iv2, "OK GIACENZA (test ok)")]
    [] iv.pc = "paid_hold" ->
         LET foId == iv.foGids[iv.k]
             w == shopifyGraphqlMutation(tm, P, HoldEffect(P, foId),
                                         HoldResult(P, foId))
             iv2 == Logged(iv, "hold", foId, <<>>, w.res)
             n == NextHold(iv.foGids, iv.k)
         IN [plat |-> w.plat,
             inv |-> WarnUserErrors(
                       IF n # 0
                       THEN [iv2 EXCEPT !.k = n]
                       ELSE Return(iv2, "OK GIACENZA (test ok)"), w.res)]
    [] iv.pc = "paid_tag_sda" ->
         LET wouldTags == WouldTagsSda(iv.tagsStr)
             w == shopifyRestWrite(tm, P, PutOrderTags(P, orderId, wouldTags), "ok")
             iv2 == Logged(iv, "tags", orderId, wouldTags, w.res)
         IN [plat |-> w.plat, inv |-> Return(iv2, "OK SDA tagged (test ok)")]

\* line 298: payload?.tracking_number || payload?.tracking_numbers?.[0]
TrackingNumber(payload) ==
  IF payload.tracking_number # Null THEN payload.tracking_number
  ELSE IF Len(payload.tracking_numbers) > 0 THEN payload.tracking_numbers[1]
  ELSE Null

\* Variant: the carrier is passed on as the event gives it.
TrackingCompanyNoDefault(payload) == payload.tracking_company

\* line 299: payload?.tracking_company || "SDA"
TrackingCompany(payload) ==
  IF payload.tracking_company # Null THEN payload.tracking_company ELSE "SDA"

\* line 300: payload?.tracking_url || payload?.tracking_urls?.[0]
TrackingUrl(payload) ==
  IF payload.tracking_url # Null THEN payload.tracking_url
  ELSE IF Len(payload.tracking_urls) > 0 THEN payload.tracking_urls[1]
  ELSE Null

\* Variant: the tracking is taken from tracking_number alone.
TrackingInfoNoFallback(payload) ==
  <<payload.tracking_number, TrackingCompany(payload)>>
    \o (IF TrackingUrl(payload) # Null THEN <<TrackingUrl(payload)>> ELSE <<>>)

\* lines 383-387: tracking_info of the fulfillment created.
TrackingInfo(payload) ==
  <<TrackingNumber(payload), TrackingCompany(payload)>>
    \o (IF TrackingUrl(payload) # Null THEN <<TrackingUrl(payload)>> ELSE <<>>)

\* Variant: the handler goes on without a tracking number.
NoTrackingYetNever(trackingNumber) == FALSE

\* line 303: no tracking on the event yet.
NoTrackingYet(trackingNumber) == trackingNumber = Null

\* Variant: no idempotence guard.
AlreadyMergedNever(triggerTags) == FALSE

\* line 327: idempotence guard of the merge.
AlreadyMerged(triggerTags) == hasTag(triggerTags, TAG_MERGE_OK)

\* line 321: the trigger is an SDA order, by shipping line or by tag.
IsSdaTrigger(triggerShippingTitle, triggerTags) ==
  triggerShippingTitle = SHIPPING_SDA \/ hasTag(triggerTags, TAG_SPEDISCI_ORA)

\* Variant: the customer is looked at before the shipping method.
TriggerExitCustomerFirst(triggerOrder) ==
  IF triggerOrder.customer = Null THEN "SKIP no customer"
  ELSE IF ~IsSdaTrigger(triggerOrder.title, triggerOrder.tags)
  THEN "OK ignored (not SDA)"
  ELSE IF AlreadyMerged(triggerOrder.tags) THEN "SKIP already merged"
  ELSE Null

\* lines 321-330: the exits decided on the trigger order, in the order of the
\* code; Null when the merge goes on.
TriggerExit(triggerOrder) ==
  IF ~IsSdaTrigger(triggerOrder.title, triggerOrder.tags)
  THEN "OK ignored (not SDA)"
  ELSE IF triggerOrder.customer = Null THEN "SKIP no customer"
  ELSE IF AlreadyMerged(triggerOrder.tags) THEN "SKIP already merged"
  ELSE Null

\* Variant: every held order of the customer is merged, shipped or not.
GiacenzeAnyStatus(orders) ==
  SelectSeq(orders, LAMBDA o : hasTag(o.tags, TAG_GIACENZA))

\* lines 338-342: the held orders not yet shipped.
Giacenze(orders) ==
  SelectSeq(orders, LAMBDA o :
    LET fs == o.fulfillment_status
        notShipped == (fs = Null \/ fs = "unfulfilled")
    IN hasTag(o.tags, TAG_GIACENZA) /\ notShipped)

\* line 397: the tags written on a merged order.
WouldTagsMerged(otags) ==
  addTags(removeTags(otags, <<TAG_GIACENZA>>), <<TAG_MERGE_OK>>)

\* Variant: MERGE_IN_CORSO is left on the trigger order.
TriggerWouldKeepInCorso(triggerTags) == addTags(triggerTags, <<TAG_MERGE_OK>>)

\* line 407: the tags that close the merge on the trigger order.
TriggerWould(triggerTags) ==
  removeTags(addTags(triggerTags, <<TAG_MERGE_OK>>), <<TAG_MERGE_IN_CORSO>>)

\* Variant: closed and cancelled units are not skipped.
NextLiveNoSkip(fos, k) == IF k < Len(fos) THEN k + 1 ELSE 0

\* line 373: the first unit after k that is neither closed nor cancelled.
NextLive(fos, k) ==
  LET c == {j \in (k + 1)..Len(fos) :
              ~(fos[j].status = "CLOSED" \/ fos[j].status = "CANCELLED")}
  IN IF c = {} THEN 0 ELSE CHOOSE j \in c : \A m \in c : j <= m

\* One step of handleFulfillmentCreate: up to and including its next gateway
\* call.
handleFulfillmentCreate(iv, P, tm) ==
  LET orderId == iv.payload.order_id
      trackingNumber == TrackingNumber(iv.payload)
  IN
  CASE iv.pc = "start" ->
         [plat |-> P,
          inv |->
            IF orderId = Null THEN Return(iv, "OK (no order_id)")
            ELSE IF NoTrackingYet(trackingNumber)
            THEN Return(iv, "SKIP no tracking yet")
            ELSE
              LET triggerOrder == RestOrder(P, orderId)
                  iv2 == [iv EXCEPT !.tagsStr = triggerOrder.tags,
                                    !.customerId = triggerOrder.customer]
                  exit == TriggerExit(triggerOrder)
              IN IF exit # Null THEN Return(iv2, exit)
                 ELSE [iv2 EXCEPT !.pc = "fc_list"]]
    [] iv.pc = "fc_list" ->
         LET giacenze == Giacenze(RestOrders(P, iv.customerId))
         IN [plat |-> P,
             inv |-> IF giacenze = <<>>
                     THEN [iv EXCEPT !.pc = "fc_close"]
                     ELSE [iv EXCEPT !.giacenze = giacenze, !.gi = 1,
                                     !.pc = "fc_fo_gids"]]
    [] iv.pc = "fc_fo_gids" ->
         LET foGids == GqlOrder(P, iv.giacenze[iv.gi].id).nodes
         IN [plat |-> P,
             inv |-> IF foGids = <<>>
                     THEN [iv EXCEPT !.foGids = foGids, !.pc = "fc_fos"]
                     ELSE [iv EXCEPT !.foGids = foGids, !.k = 1,
                                     !.pc = "fc_release"]]
    [] iv.pc = "fc_release" ->
         LET foGid == iv.foGids[iv.k]
             w == shopifyGraphqlMutation(tm, P, ReleaseEffect(P, foGid),
                                         ReleaseResult(P, foGid))
             iv2 == Logged(iv, "release", foGid, <<>>, w.res)
         IN [plat |-> w.plat,
             inv |-> WarnUserErrors(
                       IF iv.k < Len(iv.foGids)
                       THEN [iv2 EXCEPT !.k = iv.k + 1]
                       ELSE [iv2 EXCEPT !.pc = "fc_fos"], w.res)]
    [] iv.pc = "fc_fos" ->
         LET fos == RestFulfillmentOrders(P, iv.giacenze[iv.gi].id)
             k == NextLive(fos, 0)
         IN [plat |-> P,
             inv |-> IF k = 0
                     THEN [iv EXCEPT !.fos = fos, !.pc = "fc_tag"]
                     ELSE [iv EXCEPT !.fos = fos, !.k = k, !.pc = "fc_create"]]
    [] iv.pc = "fc_create" ->
         LET fo == iv.fos[iv.k]
             info == TrackingInfo(iv.payload)
             w == shopifyRestWrite(tm, P, FulfillEffect(P, fo.id, info),
                                   FulfillResult(P, fo.id))
             iv2 == Logged(iv, "create", fo.id, info, w.res)
             k == NextLive(iv.fos, iv.k)
         IN [plat |-> w.plat,
             inv |-> IF w.res = "error" THEN Return(iv2, "ERROR handled")
                     ELSE IF k = 0 THEN [iv2 EXCEPT !.pc = "fc_tag"]
                     ELSE [iv2 EXCEPT !.k = k]]
    [] iv.pc = "fc_tag" ->
         LET o == iv.giacenze[iv.gi]
             wouldTags == WouldTagsMerged(o.tags)
             w == shopifyRestWrite(tm, P, PutOrderTags(P, o.id, wouldTags), "ok")
             iv2 == Logged(iv, "tags", o.id, wouldTags, w.res)
         IN [plat |-> w.plat,
             inv |-> IF iv.gi < Len(iv.giacenze)
                     THEN [iv2 EXCEPT !.gi = iv.gi + 1, !.pc = "fc_fo_gids"]
                     ELSE [iv2 EXCEPT !.pc = "fc_close"]]
    [] iv.pc = "fc_close" ->
         LET triggerWould == TriggerWould(iv.tagsStr)
             w == shopifyRestWrite(tm, P, PutOrderTags(P, orderId, triggerWould),
                                   "ok")
             iv2 == Logged(iv, "tags", orderId, triggerWould, w.res)
         IN [plat |-> w.plat,
             inv |-> Return(iv2, "OK merge simulated (test ok)")]

\* lines 452-462 of handler: dispatch on the topic.
Step(iv, P, tm) ==
  IF iv.topic = "orders/paid" THEN handleOrdersPaid(iv, P, tm)
  ELSE IF iv.topic = "fulfillments/create" THEN handleFulfillmentCreate(iv, P, tm)
  ELSE [inv |-> Return(iv, "OK (topic ignored)"), plat |-> P]

WritePcs == {"paid_tag_accumula", "paid_hold", "paid_tag_sda", "fc_release",
             "fc_create", "fc_tag", "fc_close"}

\* The next step of iv makes a call that reaches the platform, so it can fail
\* (shopifyRest and shopifyGraphql throw on a non-2xx answer).
CallsGateway(iv, tm) ==
  CASE iv.pc \in {"idle", "done"} -> FALSE
    [] iv.pc = "start" ->
         \/ iv.topic = "orders/paid" /\ iv.payload.id # Null
         \/ /\ iv.topic = "fulfillments/create"
            /\ iv.payload.order_id # Null
            /\ ~NoTrackingYet(TrackingNumber(iv.payload))
    [] iv.pc \in WritePcs -> ~tm
    [] OTHER -> TRUE

\* Variant: a merge that hit an error goes on to close its trigger order.
CaughtThenClose(iv) ==
  IF iv.topic = "fulfillments/create" /\ iv.pc \notin {"start", "fc_close"}
  THEN [iv EXCEPT !.pc = "fc_close"]
  ELSE Return(iv, "ERROR handled")

\* lines 463-466 of handler: whatever a handler throws is caught and answered.
Caught(iv) == Return(iv, "ERROR handled")

RECURSIVE Run(_, _, _, _)
\* A whole invocation, alone: its steps one after another.  failAt = n > 0
\* makes its n-th gateway call fail.
Run(iv, P, tm, failAt) ==
  IF iv.pc = "done" THEN [inv |-> iv, plat |-> P]
  ELSE IF CallsGateway(iv, tm) /\ failAt = 1 THEN [inv |-> Caught(iv), plat |-> P]
  ELSE LET r == Step(iv, P, tm)
           n == IF CallsGateway(iv, tm) /\ failAt > 0 THEN failAt - 1 ELSE failAt
       IN Run(r.inv, r.plat, tm, n)

\* ------------------------------------------------------------------- events
\* The platform sends the order itself as the orders/paid payload.
PaidPayloads ==
  {NoPayload} \cup
  {[NoPayload EXCEPT !.id = o, !.title = shipping[o]] : o \in Orders}

\* fulfillments/create: without tracking, with tracking_number, or with the
\* tracking in tracking_numbers together with a carrier and a url; one event
\* of the express order B has its url in tracking_urls.
FcPayloadsOf(o) ==
  {[NoPayload EXCEPT !.order_id = o],
   [NoPayload EXCEPT !.order_id = o, !.tracking_number = "T123"],
   [NoPayload EXCEPT !.order_id = o, !.tracking_numbers = <<"T456">>,
                     !.tracking_company = "BRT",
                     !.tracking_url = "https://t/T456"]}

FcPayloads ==
  {NoPayload, [NoPayload EXCEPT !.tracking_number = "T123"],
   [NoPayload EXCEPT !.order_id = "B", !.tracking_number = "T789",
                     !.tracking_urls = <<"https://t/T789">>]}
    \cup UNION {FcPayloadsOf(o) : o \in Orders}

Events ==
  {[topic |-> "orders/paid", payload |-> p] : p \in PaidPayloads}
    \cup {[topic |-> "fulfillments/create", payload |-> p] : p \in FcPayloads}

\* --------------------------------------------------------------------- Init
\* Order A accumulates and order B is express, both of customer c1; order C
\* and the units of A vary; A, and C when it is express, carry a tag of the
\* shop's own.  In the last scenario A was put on hold earlier.
Scenarios ==
  {[ship |-> SHIPPING_ACCUMULA, cust |-> "c1", held |-> FALSE,
    A2 |-> "OPEN", C1 |-> "OPEN"],
   [ship |-> SHIPPING_ACCUMULA, cust |-> "c1", held |-> FALSE,
    A2 |-> "CANCELLED", C1 |-> "CLOSED"],
   [ship |-> SHIPPING_ACCUMULA, cust |-> "c2", held |-> FALSE,
    A2 |-> "OPEN", C1 |-> "OPEN"],
   [ship |-> SHIPPING_SDA, cust |-> "c1", held |-> FALSE,
    A2 |-> "CANCELLED", C1 |-> "OPEN"],
   [ship |-> SHIPPING_SDA, cust |-> Null, held |-> FALSE,
    A2 |-> "OPEN", C1 |-> "OPEN"],
   [ship |-> SHIPPING_OTHER, cust |-> "c1", held |-> FALSE,
    A2 |-> "OPEN", C1 |-> "CLOSED"],
   [ship |-> SHIPPING_SDA, cust |-> "c1", held |-> TRUE,
    A2 |-> "CANCELLED", C1 |-> "OPEN"],
   [ship |-> SHIPPING_OTHER, cust |-> Null, held |-> FALSE,
    A2 |-> "OPEN", C1 |-> "OPEN"]}

InitPlatform ==
  /\ fulfillments = {}
  /\ \E c \in Scenarios :
       /\ tags = [o \in Orders |->
            CASE o = "A" -> IF c.held THEN {TAG_VIP, TAG_GIACENZA} ELSE {TAG_VIP}
              [] o = "C" -> IF c.ship = SHIPPING_SDA THEN {TAG_VIP} ELSE {}
              [] OTHER -> {}]
       /\ foVisible = [o \in Orders |-> o # "A" \/ c.held]
       /\ foStatus = [f \in FoIds |->
            CASE f = "A1" -> IF c.held THEN "ON_HOLD" ELSE "OPEN"
              [] f = "A2" -> c.A2
              [] f = "C1" -> c.C1
              [] OTHER -> "OPEN"]
       /\ shipping = [o \in Orders |->
            CASE o = "A" -> SHIPPING_ACCUMULA [] o = "B" -> SHIPPING_SDA
              [] OTHER -> c.ship]
       /\ customer = [o \in Orders |-> IF o = "C" THEN c.cust ELSE "c1"]

InitRest ==
  /\ inv = [i \in Slots |-> Idle]
  /\ nEvents = 0
  /\ nErrors = 0
  /\ hist = <<>>
  /\ twin = <<>>
  /\ once = <<>>
  /\ SHOPIFY_WEBHOOK_SECRET = "k1"
  /\ response = <<>>
  /\ codec = <<>>

Init == InitPlatform /\ TEST_MODE \in BOOLEAN /\ InitRest

\* ------------------------------------------------------------------ actions
SetPlatform(P) ==
  /\ tags' = P.tags
  /\ foStatus' = P.fo
  /\ fulfillments' = P.ful
  /\ UNCHANGED <<foVisible, shipping, customer>>

Free(i) == inv[i].pc \in {"idle", "done"}

\* The platform delivers an event: the handler starts in the first free slot.
Deliver(i, e) ==
  /\ nEvents < MaxEvents
  /\ Free(i)
  /\ \A j \in Slots : j < i => ~Free(j)
  /\ inv' = [inv EXCEPT ![i] = Start(e.topic, e.payload)]
  /\ nEvents' = nEvents + 1
  /\ UNCHANGED <<tags, foStatus, fulfillments, foVisible, shipping, customer,
                 TEST_MODE, nErrors, hist, twin, once,
                 SHOPIFY_WEBHOOK_SECRET, response, codec>>

\* The invocation in slot i runs up to and including its next gateway call.
StepInv(i) ==
  /\ ~Free(i)
  /\ LET r == Step(inv[i], Platform, TEST_MODE)
     IN /\ inv' = [inv EXCEPT ![i] = r.inv]
        /\ SetPlatform(r.plat)
  /\ UNCHANGED <<TEST_MODE, nEvents, nErrors, hist, twin, once,
                 SHOPIFY_WEBHOOK_SECRET, response, codec>>

\* The next gateway call of the invocation in slot i fails.
GatewayError(i) ==
  /\ nErrors < MaxErrors
  /\ CallsGateway(inv[i], TEST_MODE)
  /\ inv' = [inv EXCEPT ![i] = Caught(inv[i])]
  /\ nErrors' = nErrors + 1
  /\ UNCHANGED <<tags, foStatus, fulfillments, foVisible, shipping, customer,
                 TEST_MODE, nEvents, hist, twin, once,
                 SHOPIFY_WEBHOOK_SECRET, response, codec>>

\* The platform makes the fulfillment orders of a new order queryable.
Materialize(o) ==
  /\ ~foVisible[o]
  /\ foVisible' = [foVisible EXCEPT ![o] = TRUE]
  /\ UNCHANGED <<tags, foStatus, fulfillments, shipping, customer, TEST_MODE,
                 inv, nEvents, nErrors, hist, twin, once,
                 SHOPIFY_WEBHOOK_SECRET, response, codec>>

Next ==
  \/ \E i \in Slots, e \in Events : Deliver(i, e)
  \/ \E i \in Slots : StepInv(i)
  \/ \E i \in Slots : GatewayError(i)
  \/ \E o \in Orders : Materialize(o)

Spec == Init /\ [][Next]_vars

\* ------------------------------------------------ one delivery after another
\* The platform delivers an event and the handler runs to its end before the
\* next delivery; failAt > 0 makes its failAt-th gateway call fail.
DeliverSeq(e, failAt) ==
  /\ Len(hist) < MaxHist
  /\ failAt > 0 => nErrors < MaxErrors
  /\ LET r == Run(Start(e.topic, e.payload), Platform, TEST_MODE, failAt)
     IN /\ failAt > 0 => r.inv.out = "ERROR handled"
        /\ hist' = Append(hist, r.inv)
        /\ SetPlatform(r.plat)
  /\ nErrors' = IF failAt > 0 THEN nErrors + 1 ELSE nErrors
  /\ UNCHANGED <<TEST_MODE, inv, nEvents, twin, once,
                 SHOPIFY_WEBHOOK_SECRET, response, codec>>

NextSeq ==
  \/ \E e \in Events, failAt \in 0..MaxFailAt : DeliverSeq(e, failAt)
  \/ \E o \in Orders : Materialize(o)

SpecSeq == Init /\ [][NextSeq]_vars

\* ------------------------------------- production and TEST_MODE side by side
InitTwin ==
  /\ InitPlatform
  /\ TEST_MODE = FALSE
  /\ inv = [i \in Slots |-> Idle]
  /\ nEvents = 0
  /\ nErrors = 0
  /\ hist = <<>>
  /\ twin = <<[plat |-> Platform, hist |-> <<>>, ref |-> <<>>]>>
  /\ once = <<>>
  /\ SHOPIFY_WEBHOOK_SECRET = "k1"
  /\ response = <<>>
  /\ codec = <<>>

\* The same event is handled in production and, in a copy of the world that
\* started equal, with TEST_MODE on; ref keeps what production would do with
\* the event in the state of the copy.
DeliverTwin(e) ==
  /\ Len(hist) < MaxTwin
  /\ LET r == Run(Start(e.topic, e.payload), Platform, FALSE, 0)
         t == Run(Start(e.topic, e.payload), twin[1].plat, TRUE, 0)
         p == Run(Start(e.topic, e.payload), twin[1].plat, FALSE, 0)
     IN /\ hist' = Append(hist, r.inv)
        /\ twin' = <<[plat |-> t.plat, hist |-> Append(twin[1].hist, t.inv),
                      ref |-> Append(twin[1].ref, p.inv)]>>
        /\ SetPlatform(r.plat)
  /\ UNCHANGED <<TEST_MODE, inv, nEvents, nErrors, once,
                 SHOPIFY_WEBHOOK_SECRET, response, codec>>

\* The fulfillment orders of a new order become queryable, in both worlds.
MaterializeTwin(o) ==
  /\ ~foVisible[o]
  /\ foVisible' = [foVisible EXCEPT ![o] = TRUE]
  /\ twin' = <<[twin[1] EXCEPT !.plat.vis[o] = TRUE]>>
  /\ UNCHANGED <<tags, foStatus, fulfillments, shipping, customer, TEST_MODE,
                 inv, nEvents, nErrors, hist, once,
                 SHOPIFY_WEBHOOK_SECRET, response, codec>>

NextTwin ==
  \/ \E e \in Events : DeliverTwin(e)
  \/ \E o \in Orders : MaterializeTwin(o)

SpecTwin == InitTwin /\ [][NextTwin]_vars

\* ------------------------------------------------- one event delivered twice
\* Deliveries handled one after another, before the duplicated one.
Prefix(e) ==
  /\ once = <<>>
  /\ nEvents < MaxPrefix
  /\ SetPlatform(Run(Start(e.topic, e.payload), Platform, TEST_MODE, 0).plat)
  /\ nEvents' = nEvents + 1
  /\ UNCHANGED <<TEST_MODE, inv, nErrors, hist, twin,
                 SHOPIFY_WEBHOOK_SECRET, response, codec>>
  /\ UNCHANGED once

\* The platform delivers e twice; `once` keeps the tags that one delivery of e,
\* alone, would leave.
Duplicate(e) ==
  /\ once = <<>>
  /\ once' = <<Run(Start(e.topic, e.payload), Platform, TEST_MODE, 0).plat.tags>>
  /\ inv' = [i \in Slots |-> IF i <= 2 THEN Start(e.topic, e.payload) ELSE Idle]
  /\ UNCHANGED <<tags, foStatus, fulfillments, foVisible, shipping, customer,
                 TEST_MODE, nEvents, nErrors, hist, twin,
                 SHOPIFY_WEBHOOK_SECRET, response, codec>>

NextDup ==
  \/ \E e \in Events : Prefix(e)
  \/ \E e \in Events : Duplicate(e)
  \/ \E i \in Slots : StepInv(i)
  \/ \E o \in Orders : Materialize(o)

SpecDup == Init /\ [][NextDup]_vars

\* ------------------------------------------------------------ HTTP requests
\* createHmac("sha256", secret).update(rawBody).digest("base64"): a text that
\* depends on the secret and on every byte of the body; texts of different
\* secrets or bodies differ.
Hmac(secret, rawBody) == <<secret, rawBody.name>>

\* Variant: no length check, so timingSafeEqual throws on texts of different
\* lengths.
verifyHmacNoLengthCheck(rawBody, hmacHeader, secret) ==
  IF secret = Null THEN [threw |-> TRUE, ok |-> FALSE]
  ELSE LET generated == Hmac(secret, rawBody)
       IN [threw |-> Len(generated) # Len(hmacHeader),
           ok |-> generated = hmacHeader]

\* lines 162-175: throws without a secret; else compares the generated text
\* with the header, lengths first.
verifyHmac(rawBody, hmacHeader, secret) ==
  IF secret = Null THEN [threw |-> TRUE, ok |-> FALSE]
  ELSE LET generated == Hmac(secret, rawBody)
       IN [threw |-> FALSE,
           ok |-> IF Len(generated) # Len(hmacHeader) THEN FALSE
                  ELSE generated = hmacHeader]

\* JSON.parse(rawBody) succeeds.
IsJson(rawBody) == rawBody.json

\* JSON.parse(rawBody)
JsonParse(rawBody) == rawBody.value

\* res.status(code).send(text), with the invocation that ran, if any.
Respond(code, text, iv, P) ==
  [status |-> code, body |-> text, inv |-> iv, plat |-> P]

\* Variant: the body is parsed before the signature is looked at.
handlerParsesFirst(req, P, tm, secret, failAt) ==
  IF req.method # "POST" THEN Respond("405", Null, Idle, P)
  ELSE IF ~IsJson(req.rawBody) THEN Respond("400", "Invalid JSON", Idle, P)
  ELSE IF ~req.hasHmac \/ ~Truthy(req.hmac)
  THEN Respond("401", "Missing HMAC header", Idle, P)
  ELSE LET v == verifyHmac(req.rawBody, req.hmac, secret)
       IN IF v.threw THEN Respond("200", "ERROR handled", Idle, P)
          ELSE IF ~v.ok THEN Respond("401", "HMAC validation failed", Idle, P)
          ELSE LET r == Run(Start(req.topic, JsonParse(req.rawBody)), P, tm,
                            failAt)
               IN Respond("200", r.inv.out, r.inv, r.plat)

\* lines 421-467: the main handler, one request to its response.
handler(req, P, tm, secret, failAt) ==
  IF req.method # "POST" THEN Respond("405", Null, Idle, P)
  ELSE IF ~req.hasHmac \/ ~Truthy(req.hmac)
  THEN Respond("401", "Missing HMAC header", Idle, P)
  ELSE LET v == verifyHmac(req.rawBody, req.hmac, secret)
       IN IF v.threw THEN Respond("200", "ERROR handled", Idle, P)
          ELSE IF ~v.ok THEN Respond("401", "HMAC validation failed", Idle, P)
          ELSE IF ~IsJson(req.rawBody)
          THEN Respond("400", "Invalid JSON", Idle, P)
          ELSE LET r == Run(Start(req.topic, JsonParse(req.rawBody)), P, tm,
                            failAt)
               IN Respond("200", r.inv.out, r.inv, r.plat)

\* The bodies that arrive: events of the platform, an empty object, and a text
\* that is not JSON.
RawBodies ==
  {[name |-> "paidA", json |-> TRUE,
    value |-> [NoPayload EXCEPT !.id = "A", !.title = shipping["A"]]],
   [name |-> "paidB", json |-> TRUE,
    value |-> [NoPayload EXCEPT !.id = "B", !.title = shipping["B"]]],
   [name |-> "fcB", json |-> TRUE,
    value |-> [NoPayload EXCEPT !.order_id = "B", !.tracking_number = "T123"]],
   [name |-> "empty", json |-> TRUE, value |-> NoPayload],
   [name |-> "garbage", json |-> FALSE, value |-> NoPayload]}

\* The x-shopify-hmac-sha256 texts that come with a body: the signature under
\* the shop's secret, under another secret, of another body, a cut one, and
\* the empty text.
HmacHeaders(rawBody) ==
  {Hmac("k1", rawBody), Hmac("k2", rawBody),
   Hmac("k1", [rawBody EXCEPT !.name = "other"]), <<"k1">>, <<>>}

Topics == {"orders/paid", "fulfillments/create", "orders/create", Null}

\* POST requests in every combination; a GET with a signed event.
Requests ==
  UNION {
    {[method |-> "POST", hasHmac |-> TRUE, hmac |-> x, topic |-> t,
      rawBody |-> b] : t \in Topics, x \in HmacHeaders(b)}
    \cup
    {[method |-> "POST", hasHmac |-> FALSE, hmac |-> <<>>, topic |-> t,
      rawBody |-> b] : t \in Topics}
    \cup
    {[method |-> "GET", hasHmac |-> TRUE, hmac |-> Hmac("k1", b),
      topic |-> "orders/paid", rawBody |-> b]}
    : b \in RawBodies}

InitHttp ==
  /\ InitPlatform
  /\ TEST_MODE \in BOOLEAN
  /\ SHOPIFY_WEBHOOK_SECRET \in {Null, "k1"}
  /\ inv = [i \in Slots |-> Idle]
  /\ nEvents = 0
  /\ nErrors = 0
  /\ hist = <<>>
  /\ twin = <<>>
  /\ once = <<>>
  /\ response = <<>>
  /\ codec = <<>>

\* A request arrives and is answered; failAt > 0 makes the failAt-th gateway
\* call of its handler fail.
HttpRequest(req, failAt) ==
  /\ nEvents < MaxRequests
  /\ failAt > 0 => nErrors < MaxErrors
  /\ LET r == handler(req, Platform, TEST_MODE, SHOPIFY_WEBHOOK_SECRET, failAt)
     IN /\ failAt > 0 => r.inv.out = "ERROR handled"
        /\ response' = <<[req |-> req, status |-> r.status, body |-> r.body,
                          inv |-> r.inv, before |-> Platform]>>
        /\ SetPlatform(r.plat)
  /\ nEvents' = nEvents + 1
  /\ nErrors' = IF failAt > 0 THEN nErrors + 1 ELSE nErrors
  /\ UNCHANGED <<TEST_MODE, inv, hist, twin, once, SHOPIFY_WEBHOOK_SECRET,
                 codec>>

NextHttp ==
  \/ \E req \in Requests, failAt \in 0..MaxHttpFailAt :
       HttpRequest(req, failAt)
  \/ \E o \in Orders : Materialize(o)

SpecHttp == InitHttp /\ [][NextHttp]_vars

\* ---------------------------------------------------------- the codec alone
Tokens == {"a", "b", Comma, Blank}

\* The sequences over S of length up to n.
SeqsUpTo(S, n) == UNION {[1..k -> S] : k \in 0..n}

\* Any string may be put in a Set and passed as a tag.
CodecTags == SeqsUpTo(Tokens, MaxTagLen)

\* A Set of tags, in insertion order.
CodecSets ==
  {s \in SeqsUpTo(CodecTags, MaxTags) :
     \A j, k \in 1..Len(s) : j # k => s[j] # s[k]}

CodecLists == SeqsUpTo(CodecTags, MaxTags)

CodecTexts == SeqsUpTo(Tokens, MaxTextLen)

CodecInput(set, text, list) ==
  [op |-> "input", set |-> set, text |-> text, list |-> list, str |-> <<>>,
   back |-> <<>>, once |-> <<>>, twice |-> <<>>, has |-> <<>>]

InitCodec ==
  /\ tags = [o \in Orders |-> {}]
  /\ foStatus = [f \in FoIds |-> "OPEN"]
  /\ fulfillments = {}
  /\ foVisible = [o \in Orders |-> TRUE]
  /\ shipping = [o \in Orders |-> SHIPPING_OTHER]
  /\ customer = [o \in Orders |-> Null]
  /\ TEST_MODE = TRUE
  /\ inv = [i \in Slots |-> Idle]
  /\ nEvents = 0
  /\ nErrors = 0
  /\ hist = <<>>
  /\ twin = <<>>
  /\ once = <<>>
  /\ SHOPIFY_WEBHOOK_SECRET = "k1"
  /\ response = <<>>
  /\ \/ \E s \in CodecSets : codec = <<CodecInput(s, <<>>, <<>>)>>
     \/ \E t \in CodecTexts, X \in CodecLists :
          codec = <<CodecInput(<<>>, t, X)>>

CodecUnchanged ==
  UNCHANGED <<tags, foStatus, fulfillments, foVisible, shipping, customer,
              TEST_MODE, inv, nEvents, nErrors, hist, twin, once,
              SHOPIFY_WEBHOOK_SECRET, response>>

\* parseTags(tagsToString(set))
RoundTrip ==
  /\ codec[1].op = "input"
  /\ codec[1].text = <<>> /\ codec[1].list = <<>>
  /\ LET str == tagsToString(codec[1].set)
     IN codec' = <<[codec[1] EXCEPT !.op = "roundtrip", !.str = str,
                                    !.back = parseTags(str)]>>
  /\ CodecUnchanged

\* addTags(text, list), addTags of its result, and hasTag on its result.
AddTwice ==
  /\ codec[1].op = "input"
  /\ codec[1].set = <<>>
  /\ LET t == codec[1].text
         X == codec[1].list
         r == addTags(t, X)
     IN codec' = <<[codec[1] EXCEPT !.op = "add", !.once = r,
                      !.twice = addTags(r, X),
                      !.has = [k \in 1..Len(X) |-> hasTag(r, X[k])]]>>
  /\ CodecUnchanged

\* removeTags(text, list), removeTags of its result, and hasTag on its result.
RemoveTwice ==
  /\ codec[1].op = "input"
  /\ codec[1].set = <<>>
  /\ LET t == codec[1].text
         X == codec[1].list
         r == removeTags(t, X)
     IN codec' = <<[codec[1] EXCEPT !.op = "remove", !.once = r,
                      !.twice = removeTags(r, X),
                      !.has = [k \in 1..Len(X) |-> hasTag(r, X[k])]]>>
  /\ CodecUnchanged

NextCodec == RoundTrip \/ AddTwice \/ RemoveTwice

SpecCodec == InitCodec /\ [][NextCodec]_vars

\* =================================================================== claims
Ran(iv) == iv.pc = "done" /\ iv.out # "ERROR handled"

IsPaid(iv, o) == iv.topic = "orders/paid" /\ iv.payload.id = o

IsFc(iv) == iv.topic = "fulfillments/create"

TagSet(text) == Range(parseTags(text))

\* C1: in production, when handleOrdersPaid has returned for an order paid with
\* "SDA Express 24/48h" and is applied again to the same order with no other
\* invocation in between, the second call returns "SKIP already handled" and
\* issues no write.
C1_IdempotentPaid ==
  \A k \in 1..(Len(hist) - 1) :
    ( /\ ~TEST_MODE
      /\ \E o \in Orders : IsPaid(hist[k], o) /\ IsPaid(hist[k + 1], o)
      /\ hist[k].payload.title = SHIPPING_SDA
      /\ Ran(hist[k]) /\ Ran(hist[k + 1]) )
    => /\ hist[k + 1].out = "SKIP already handled"
       /\ hist[k + 1].writes = <<>>

\* The first call tagged the order and the second one skipped.
C1_Witness ==
  \E k \in 1..(Len(hist) - 1) :
    /\ ~TEST_MODE
    /\ IsPaid(hist[k], "B") /\ IsPaid(hist[k + 1], "B")
    /\ hist[k].out = "OK SDA tagged (test ok)"
    /\ hist[k].writes # <<>>
    /\ hist[k + 1].out = "SKIP already handled"

\* C2 as stated: whenever handleFulfillmentCreate has read a trigger order whose
\* tags contain MERGE_OK, it issues no write and returns "SKIP already merged".
C2_Original ==
  \A i \in Slots :
    (IsFc(inv[i]) /\ hasTag(inv[i].tagsStr, TAG_MERGE_OK))
    => /\ inv[i].writes = <<>>
       /\ inv[i].out = "SKIP already merged"

\* C2 amended: whenever handleFulfillmentCreate has read a trigger order whose
\* tags contain MERGE_OK, it returns at once without any write; the outcome is
\* "SKIP already merged" exactly when the order is an SDA order (by shipping
\* line or by SPEDISCI_ORA) with a customer, else that of the earlier exit.
C2_AlreadyMerged ==
  \A i \in Slots :
    (IsFc(inv[i]) /\ hasTag(inv[i].tagsStr, TAG_MERGE_OK))
    => LET o == inv[i].payload.order_id
           sda == shipping[o] = SHIPPING_SDA
                    \/ hasTag(inv[i].tagsStr, TAG_SPEDISCI_ORA)
       IN /\ inv[i].pc = "done"
          /\ inv[i].writes = <<>>
          /\ inv[i].out = IF ~sda THEN "OK ignored (not SDA)"
                          ELSE IF customer[o] = Null THEN "SKIP no customer"
                          ELSE "SKIP already merged"

\* A merge closed on B, and the event came again.
C2_Witness ==
  \E i \in Slots :
    /\ IsFc(inv[i])
    /\ hasTag(inv[i].tagsStr, TAG_MERGE_OK)
    /\ inv[i].out = "SKIP already merged"
    /\ TAG_MERGE_OK \in tags[inv[i].payload.order_id]

\* The deliveries were paid(a), paid(b), fulfillments/create(b) with tracking,
\* each handled to its end without a gateway error, in production, and no
\* unit of a had been shipped before.
HoldThenMerge(a, b) ==
  /\ ~TEST_MODE
  /\ hist # <<>>
  /\ Len(hist) = 3
  /\ \A k \in 1..3 : Ran(hist[k])
  /\ IsPaid(hist[1], a) /\ hist[1].payload.title = SHIPPING_ACCUMULA
  /\ IsPaid(hist[2], b) /\ hist[2].payload.title = SHIPPING_SDA
  /\ customer[a] = customer[b] /\ customer[b] # Null
  /\ \A f \in Range(FoOf[a]) :
       foStatus[f] = "CLOSED" => \E x \in fulfillments : x.fo = f
  /\ IsFc(hist[3]) /\ hist[3].payload.order_id = b
  /\ hist[3].payload.tracking_number # Null
       \/ hist[3].payload.tracking_numbers # <<>>

EventTracking(payload) ==
  IF payload.tracking_number # Null THEN payload.tracking_number
  ELSE payload.tracking_numbers[1]

Issued(ws, op, target) ==
  \E n \in 1..Len(ws) : ws[n].op = op /\ ws[n].target = target

C4_NoTrackingYet ==
  \A i \in Slots :
    ( /\ IsFc(inv[i])
      /\ inv[i].payload.order_id # Null
      /\ inv[i].payload.tracking_number = Null
      /\ inv[i].payload.tracking_numbers = <<>>
      /\ inv[i].pc # "start" )
    => /\ inv[i].pc = "done"
       /\ inv[i].out = "SKIP no tracking yet"
       /\ inv[i].writes = <<>>

\* The event without tracking came for an order that is in a merge.
C4_Witness ==
  \E i \in Slots :
    /\ IsFc(inv[i])
    /\ inv[i].payload.order_id = "B"
    /\ inv[i].payload.tracking_number = Null
    /\ inv[i].payload.tracking_numbers = <<>>
    /\ inv[i].out = "SKIP no tracking yet"
    /\ TAG_MERGE_IN_CORSO \in tags["B"]

\* C5: when handleFulfillmentCreate passed its preconditions and found no held,
\* unshipped order of the customer, it issues exactly one write: the trigger
\* order's tags as read, plus MERGE_OK and minus MERGE_IN_CORSO.
C5_EmptyMergeableSet ==
  \A i \in Slots :
    (IsFc(inv[i]) /\ inv[i].giacenze = <<>>)
    => /\ inv[i].pc = "fc_close" => inv[i].writes = <<>>
       /\ (inv[i].pc = "done" /\ inv[i].out = "OK merge simulated (test ok)")
            => /\ Len(inv[i].writes) = 1
               /\ inv[i].writes[1].op = "tags"
               /\ inv[i].writes[1].target = inv[i].payload.order_id
               /\ TagSet(inv[i].writes[1].arg) =
                    (TagSet(inv[i].tagsStr) \cup {TAG_MERGE_OK})
                      \ {TAG_MERGE_IN_CORSO}

\* B was in a merge, had nothing to merge, and is closed on the platform.
C5_Witness ==
  \E i \in Slots :
    /\ IsFc(inv[i]) /\ inv[i].giacenze = <<>>
    /\ inv[i].out = "OK merge simulated (test ok)"
    /\ TAG_MERGE_IN_CORSO \in TagSet(inv[i].tagsStr)
    /\ inv[i].writes[1].res = "ok"
    /\ tags[inv[i].payload.order_id] = {TAG_SPEDISCI_ORA, TAG_MERGE_OK}

\* C6: in every reachable state, whatever the deliveries and however their
\* handlers interleave, no order is tagged both MERGE_OK and MERGE_IN_CORSO.
C6_MergeDoneXorInProgress ==
  \A o \in Orders :
    ~(TAG_MERGE_OK \in tags[o] /\ TAG_MERGE_IN_CORSO \in tags[o])

\* An express order went through MERGE_IN_CORSO and its merge is closed, while
\* another invocation for it is still running.
C6_Witness ==
  /\ tags["B"] = {TAG_SPEDISCI_ORA, TAG_MERGE_OK}
  /\ \E i \in Slots :
       /\ inv[i].pc \notin {"idle", "done"}
       /\ inv[i].payload.id = "B" \/ inv[i].payload.order_id = "B"

C8_DryRunGate ==
  [][TEST_MODE =>
       /\ tags' = tags
       /\ foStatus' = foStatus
       /\ fulfillments' = fulfillments
       /\ \A i \in Slots : \A n \in 1..Len(inv'[i].writes) :
            inv'[i].writes[n].res = "skipped"]_vars

\* With TEST_MODE on, a paid handler went through its tag write and its holds,
\* and a merge through release-hold, fulfillment creation and both tag writes.
C8_Witness ==
  /\ TEST_MODE
  /\ \E i, j \in Slots :
       /\ inv[i].pc = "done" /\ inv[j].pc = "done"
       /\ \E n \in 1..Len(inv[i].writes) : inv[i].writes[n].op = "hold"
       /\ \E n \in 1..Len(inv[j].writes) : inv[j].writes[n].op = "release"
       /\ \E n \in 1..Len(inv[j].writes) : inv[j].writes[n].op = "create"
       /\ \E n \in 1..Len(inv[j].writes) :
            inv[j].writes[n].op = "tags" /\ inv[j].writes[n].target = "B"

\* The three deliveries of the twin worlds: paid(a), paid(b), and
\* fulfillments/create(b) with tracking.
TwinSequence(a, b) ==
  /\ Len(hist) = 3
  /\ IsPaid(hist[1], a) /\ hist[1].payload.title = SHIPPING_ACCUMULA
  /\ IsPaid(hist[2], b) /\ hist[2].payload.title = SHIPPING_SDA
  /\ IsFc(hist[3]) /\ hist[3].payload.order_id = b
  /\ hist[3].payload.tracking_number # Null
       \/ hist[3].payload.tracking_numbers # <<>>

\* The write calls as issued, without what came back.
Attempts(ws) ==
  [n \in 1..Len(ws) |->
     [op |-> ws[n].op, target |-> ws[n].target, arg |-> ws[n].arg]]

AllSkipped(ws) == \A n \in 1..Len(ws) : ws[n].res = "skipped"

\* C9 as stated: the sequence paid(A), paid(B), fulfillments/create(B) gives in
\* TEST_MODE the same outcome, the same mergeable set and the same attempted
\* writes per event as in production, each write answered "skipped".
C9_Original ==
  \A a, b \in Orders :
    TwinSequence(a, b)
    => \A k \in 1..3 :
         /\ twin[1].hist[k].out = hist[k].out
         /\ twin[1].hist[k].giacenze = hist[k].giacenze
         /\ Attempts(twin[1].hist[k].writes) = Attempts(hist[k].writes)
         /\ AllSkipped(twin[1].hist[k].writes)

\* C9 amended: the sequence gives in TEST_MODE the same outcome per event as in
\* production, each write answered "skipped"; the two paid events attempt the
\* same writes as in production; and every event attempts the writes that
\* production would attempt from the platform state TEST_MODE left untouched,
\* with the same mergeable set
\* (so the merge of B does not find the order A that paid(A) did not tag).
C9_DryRunEquivalence ==
  \A a, b \in Orders :
    TwinSequence(a, b)
    => \A k \in 1..3 :
         LET t == twin[1].hist[k]
             p == twin[1].ref[k]
         IN /\ t.out = hist[k].out
            /\ AllSkipped(t.writes)
            /\ k < 3 => Attempts(t.writes) = Attempts(hist[k].writes)
            /\ Attempts(t.writes) = Attempts(p.writes)
            /\ t.giacenze = p.giacenze

\* Production merged A into B's shipment; TEST_MODE found nothing to merge and
\* attempted the closing write alone.
C9_Witness ==
  /\ TwinSequence("A", "B")
  /\ Len(hist[1].writes) > 1
  /\ Len(twin[1].hist[1].writes) > 1
  /\ hist[3].giacenze # <<>>
  /\ twin[1].hist[3].giacenze = <<>>
  /\ Len(twin[1].hist[3].writes) = 1
  /\ hist[3].out = "OK merge simulated (test ok)"

\* C10: when one event is delivered twice and the two handlers run interleaved
\* call by call (one after the other included), every order ends with the tags
\* that one delivery of the event leaves.
C10_Convergence ==
  (once # <<>> /\ \A i \in Slots : inv[i].pc \in {"idle", "done"})
  => tags = once[1]

\* Two merges of the same event ran into each other: the platform rejected the
\* fulfillment one of them tried to create again, the other closed the merge.
C10_Witness ==
  /\ once # <<>>
  /\ \E i, j \in Slots :
       /\ IsFc(inv[i]) /\ inv[i].out = "ERROR handled"
       /\ IsFc(inv[j]) /\ inv[j].out = "OK merge simulated (test ok)"
       /\ Len(inv[j].writes) > 1
  /\ tags = once[1]

\* A merge that had passed its guards and was cut short by a gateway error.
MergeAborted(iv) ==
  /\ IsFc(iv)
  /\ iv.out = "ERROR handled"
  /\ iv.customerId # Null
  /\ ~hasTag(iv.tagsStr, TAG_MERGE_OK)

\* C11: when a merge aborts on a gateway error before its closing write, the
\* trigger order is not tagged MERGE_OK afterwards; and when the same event
\* is delivered again and handled without error, the trigger order is tagged
\* MERGE_OK and every order the aborted merge had found to merge is tagged
\* MERGE_OK and not GIACENZA.
C11_CrashRecovery ==
  /\ ~TEST_MODE
  => \A k \in 1..Len(hist) :
       MergeAborted(hist[k])
       => /\ k = Len(hist) => TAG_MERGE_OK \notin tags[hist[k].payload.order_id]
          /\ ( /\ k + 1 = Len(hist)
               /\ IsFc(hist[k + 1])
               /\ hist[k + 1].payload = hist[k].payload
               /\ Ran(hist[k + 1]) )
             => /\ TAG_MERGE_OK \in tags[hist[k].payload.order_id]
                /\ \A n \in 1..Len(hist[k].giacenze) :
                     LET o == hist[k].giacenze[n].id
                     IN TAG_MERGE_OK \in tags[o] /\ TAG_GIACENZA \notin tags[o]

\* The first half of C11 alone: right after an aborted merge the trigger order
\* is not tagged MERGE_OK.
C11_AbortLeavesOpen ==
  \A k \in 1..Len(hist) :
    (~TEST_MODE /\ MergeAborted(hist[k]) /\ k = Len(hist))
    => TAG_MERGE_OK \notin tags[hist[k].payload.order_id]

\* The write of an invocation that closes the merge on its trigger order.
ClosingWrite(iv, n) ==
  iv.writes[n].op = "tags" /\ iv.writes[n].target = iv.payload.order_id

\* C12: within one merge invocation the write that sets MERGE_OK on the
\* trigger order is its last write and comes after the tag rewrite of every
\* order of its mergeable set has returned; an invocation that ended on a
\* gateway error has not issued it.
C12_ClosureOrdering ==
  \A i \in Slots :
    IsFc(inv[i])
    => /\ \A n \in 1..Len(inv[i].writes) :
            ClosingWrite(inv[i], n)
            => /\ n = Len(inv[i].writes)
               /\ inv[i].out = "OK merge simulated (test ok)"
               /\ \A g \in 1..Len(inv[i].giacenze) :
                    \E m \in 1..(n - 1) :
                      /\ inv[i].writes[m].op = "tags"
                      /\ inv[i].writes[m].target = inv[i].giacenze[g].id
                      /\ inv[i].writes[m].res \in {"ok", "skipped"}
       /\ inv[i].out = "ERROR handled"
            => \A n \in 1..Len(inv[i].writes) : ~ClosingWrite(inv[i], n)

\* One merge rewrote the tags of a held order and then closed its trigger
\* order, while another merge of the same trigger ended on a gateway error
\* after it had started on the held order.
C12_Witness ==
  \E i, j \in Slots :
    /\ ~TEST_MODE
    /\ IsFc(inv[i]) /\ inv[i].giacenze # <<>>
    /\ inv[i].out = "OK merge simulated (test ok)"
    /\ ClosingWrite(inv[i], Len(inv[i].writes))
    /\ TAG_MERGE_OK \in tags[inv[i].payload.order_id]
    /\ IsFc(inv[j]) /\ inv[j].giacenze # <<>>
    /\ inv[j].out = "ERROR handled"
    /\ inv[j].writes # <<>>

\* The request carries no signature (no header, or an empty one).
SignatureMissing(req) == ~req.hasHmac \/ req.hmac = <<>>

\* The request carries a signature that is the HMAC of its raw body under the
\* configured secret.
SignatureValid(req) ==
  /\ ~SignatureMissing(req)
  /\ SHOPIFY_WEBHOOK_SECRET # Null
  /\ req.hmac = Hmac(SHOPIFY_WEBHOOK_SECRET, req.rawBody)

\* The request carries a signature that differs from the HMAC of its raw body
\* under the configured secret.
SignatureMismatched(req) ==
  /\ ~SignatureMissing(req)
  /\ SHOPIFY_WEBHOOK_SECRET # Null
  /\ req.hmac # Hmac(SHOPIFY_WEBHOOK_SECRET, req.rawBody)

\* C13: a request that is not a POST gets 405; a POST with a missing or
\* mismatched signature gets 401; a POST with a valid signature and a body
\* that is not JSON gets 400; every other POST gets 200, among them events of
\* an unrecognised topic and events whose handler ended on a gateway error.
C13_ResponseContract ==
  response # <<>>
  => LET q == response[1]
         req == q.req
     IN /\ q.status =
             IF req.method # "POST" THEN "405"
             ELSE IF SignatureMissing(req) \/ SignatureMismatched(req)
             THEN "401"
             ELSE IF SignatureValid(req) /\ ~req.rawBody.json THEN "400"
             ELSE "200"
        /\ ( /\ req.method = "POST" /\ SignatureValid(req) /\ req.rawBody.json
             /\ req.topic \notin {"orders/paid", "fulfillments/create"} )
           => q.status = "200" /\ q.body = "OK (topic ignored)"
        /\ q.inv.out = "ERROR handled"
           => q.status = "200" /\ q.body = "ERROR handled"

\* A signed fulfillments/create event whose handler hit a gateway error after
\* it had begun was answered 200.
C13_Witness ==
  /\ response # <<>>
  /\ response[1].req.method = "POST"
  /\ SignatureValid(response[1].req)
  /\ response[1].req.topic = "fulfillments/create"
  /\ response[1].inv.out = "ERROR handled"
  /\ response[1].inv.customerId # Null
  /\ response[1].status = "200"

\* C14: a request whose signature is missing or is not the HMAC of its raw
\* body reaches neither handleOrdersPaid nor handleFulfillmentCreate and
\* leaves orders, units and fulfillments as they were; the signature is
\* checked before the body is parsed and the topic looked at, so such a POST
\* is answered 401 whatever its body and topic when a secret is configured.
C14_NoProcessingUnauthenticated ==
  response # <<>>
  => LET q == response[1]
         req == q.req
     IN ~SignatureValid(req)
        => /\ q.inv = Idle
           /\ [q.before EXCEPT !.vis = foVisible] = Platform
           /\ q.status # "400"
           /\ (req.method = "POST" /\ SHOPIFY_WEBHOOK_SECRET # Null)
                => q.status = "401"

\* A body that is not JSON came with a cut signature and was turned away as
\* unauthorized, not as malformed.
C14_Witness ==
  /\ response # <<>>
  /\ nEvents = 2
  /\ response[1].req.method = "POST"
  /\ response[1].req.rawBody.name = "garbage"
  /\ response[1].req.hmac = <<"k1">>
  /\ response[1].status = "401"
  /\ response[1].inv = Idle
  /\ \A o \in Orders : tags[o] \subseteq {TAG_VIP, TAG_GIACENZA}

\* An orders/paid invocation for an accumulate order, past its first read.
PaidAccumula(iv) ==
  /\ iv.topic = "orders/paid"
  /\ iv.payload.id # Null
  /\ iv.payload.title = SHIPPING_ACCUMULA
  /\ iv.pc # "start"

\* C15: when handleOrdersPaid handles an accumulate order whose fulfillment
\* orders have never been queryable, it issues no hold call, and unless a
\* gateway call failed it ends with "OK GIACENZA (test ok)" after exactly one
\* write, the order's tags with GIACENZA added; the absence of units raises no
\* error.
C15_NoUnitsIsNoError ==
  \A i \in Slots :
    (PaidAccumula(inv[i]) /\ ~foVisible[inv[i].payload.id])
    => /\ inv[i].pc # "paid_hold"
       /\ \A n \in 1..Len(inv[i].writes) : inv[i].writes[n].op # "hold"
       /\ (inv[i].pc = "done" /\ inv[i].out = "ERROR handled") => nErrors > 0
       /\ (inv[i].pc = "done" /\ inv[i].out # "ERROR handled")
            => /\ inv[i].out = "OK GIACENZA (test ok)"
               /\ Len(inv[i].writes) = 1
               /\ inv[i].writes[1].op = "tags"
               /\ inv[i].writes[1].target = inv[i].payload.id
               /\ TAG_GIACENZA \in TagSet(inv[i].writes[1].arg)

\* paid(A) ended well and tagged A although A's units were not there yet.
C15_Witness ==
  \E i \in Slots :
    /\ PaidAccumula(inv[i]) /\ inv[i].payload.id = "A"
    /\ ~foVisible["A"]
    /\ ~TEST_MODE
    /\ inv[i].out = "OK GIACENZA (test ok)"
    /\ inv[i].writes[1].res = "ok"
    /\ TAG_GIACENZA \in tags["A"]
    /\ foStatus["A1"] = "OPEN"

\* A tag as the platform keeps it: not empty, without a comma, and without a
\* blank at either end.
WellFormed(tag) ==
  /\ tag # <<>>
  /\ \A k \in 1..Len(tag) : tag[k] # Comma
  /\ tag[1] # Blank /\ tag[Len(tag)] # Blank

AllWellFormed(list) == \A k \in 1..Len(list) : WellFormed(list[k])

\* C16 as stated: for every finite set s of tags, parseTags(tagsToString(s))
\* has the elements of s.
C16_Original ==
  (codec # <<>> /\ codec[1].op = "roundtrip")
  => Range(codec[1].back) = Range(codec[1].set)

\* C16 amended: for every finite set s of tags that are not empty, hold no
\* comma and neither begin nor end with a blank, parseTags(tagsToString(s))
\* has the elements of s, in the order of s.
C16_RoundTrip ==
  (codec # <<>> /\ codec[1].op = "roundtrip" /\ AllWellFormed(codec[1].set))
  => /\ Range(codec[1].back) = Range(codec[1].set)
     /\ codec[1].back = codec[1].set

\* A set of two tags went through "b, a" and came back.
C16_Witness ==
  /\ codec # <<>>
  /\ codec[1].op = "roundtrip"
  /\ codec[1].set = <<(<<"b">>), (<<"a">>)>>
  /\ codec[1].str = <<"b", Comma, Blank, "a">>
  /\ codec[1].back = codec[1].set

C18_MergeDoneTerminal ==
  [][\A o \in Orders : TAG_MERGE_OK \in tags[o] => TAG_MERGE_OK \in tags'[o]]_vars

\* C19: when handleOrdersPaid handles an order paid with "SDA Express 24/48h"
\* whose tags, as it read them, hold neither MERGE_OK nor MERGE_IN_CORSO, it
\* issues no write before its tag write, and ends after exactly one write: the
\* order's tags as read plus SPEDISCI_ORA and MERGE_IN_CORSO; it issues no hold.
C19_ExpressPaidPath ==
  \A i \in Slots :
    ( /\ inv[i].topic = "orders/paid"
      /\ inv[i].payload.id # Null
      /\ inv[i].payload.title = SHIPPING_SDA
      /\ inv[i].pc # "start"
      /\ TAG_MERGE_OK \notin TagSet(inv[i].tagsStr)
      /\ TAG_MERGE_IN_CORSO \notin TagSet(inv[i].tagsStr) )
    => /\ inv[i].pc \in {"paid_tag_sda", "done"}
       /\ inv[i].pc = "paid_tag_sda" => inv[i].writes = <<>>
       /\ (inv[i].pc = "done" /\ inv[i].out # "ERROR handled")
            => /\ inv[i].out = "OK SDA tagged (test ok)"
               /\ Len(inv[i].writes) = 1
               /\ inv[i].writes[1].op = "tags"
               /\ inv[i].writes[1].target = inv[i].payload.id
               /\ TagSet(inv[i].writes[1].arg) =
                    TagSet(inv[i].tagsStr)
                      \cup {TAG_SPEDISCI_ORA, TAG_MERGE_IN_CORSO}

\* An express order tagged VIP was paid and is tagged VIP and the two tags;
\* its unit was not touched.
C19_Witness ==
  \E i \in Slots :
    /\ inv[i].topic = "orders/paid"
    /\ inv[i].payload.title = SHIPPING_SDA
    /\ inv[i].out = "OK SDA tagged (test ok)"
    /\ inv[i].writes[1].res = "ok"
    /\ inv[i].payload.id = "C"
    /\ tags["C"] = {TAG_VIP, TAG_SPEDISCI_ORA, TAG_MERGE_IN_CORSO}
    /\ foStatus["C1"] = "OPEN"

\* The last delivery was orders/paid for an accumulate order and was handled
\* to its end without a gateway error.
PaidAccumulaDone(k) ==
  /\ k = Len(hist)
  /\ PaidAccumula(hist[k])
  /\ Ran(hist[k])

\* The writes of a paid invocation are the tag write with GIACENZA and then
\* one hold call for each fulfillment order it discovered, in their order.
TagThenHolds(iv) ==
  /\ Len(iv.writes) = 1 + Len(iv.foGids)
  /\ iv.writes[1].op = "tags"
  /\ iv.writes[1].target = iv.payload.id
  /\ TAG_GIACENZA \in TagSet(iv.writes[1].arg)
  /\ \A n \in 1..Len(iv.foGids) :
       /\ iv.writes[n + 1].op = "hold"
       /\ iv.writes[n + 1].target = iv.foGids[n]

\* C20 as stated: when handleOrdersPaid has handled an accumulate order without
\* error (in production, alone), it issued the GIACENZA tag write first and
\* then one hold call for each fulfillment order it discovered, so the order
\* is tagged GIACENZA and every discovered fulfillment order is on hold.
C20_Original ==
  \A k \in 1..Len(hist) :
    (PaidAccumulaDone(k) /\ ~TEST_MODE)
    => /\ TagThenHolds(hist[k])
       /\ TAG_GIACENZA \in tags[hist[k].payload.id]
       /\ \A f \in Range(hist[k].foGids) : foStatus[f] = "ON_HOLD"

\* C20 amended: when handleOrdersPaid has handled an accumulate order without
\* error and alone, it issued the GIACENZA tag write first and then one hold
\* call for each fulfillment order it discovered; in production the order is
\* then tagged GIACENZA and every discovered fulfillment order is on hold,
\* except those closed or cancelled, whose hold call came back with a warning
\* and which stay as they were.
C20_AccumulatePaidPath ==
  \A k \in 1..Len(hist) :
    PaidAccumulaDone(k)
    => /\ TagThenHolds(hist[k])
       /\ ~TEST_MODE
            => /\ TAG_GIACENZA \in tags[hist[k].payload.id]
               /\ \A n \in 1..Len(hist[k].foGids) :
                    LET f == hist[k].foGids[n]
                    IN \/ foStatus[f] = "ON_HOLD"
                       \/ /\ foStatus[f] \in {"CLOSED", "CANCELLED"}
                          /\ hist[k].writes[n + 1].res = "warning"

\* paid(A) found both units of A open and put both on hold.
C20_Witness ==
  /\ hist # <<>>
  /\ PaidAccumulaDone(Len(hist))
  /\ ~TEST_MODE
  /\ hist[Len(hist)].foGids = <<"A1", "A2">>
  /\ \A n \in 1..3 : hist[Len(hist)].writes[n].res = "ok"
  /\ foStatus["A1"] = "ON_HOLD" /\ foStatus["A2"] = "ON_HOLD"
  /\ TAG_GIACENZA \in tags["A"]

\* C21: when the paid invocation of an accumulate order found no fulfillment
\* unit at its first read and the units of the order have become queryable
\* before the invocation ends, the invocation reads them again: if it then
\* ends without a gateway error, it has issued a hold on each unit of the
\* order.
C21_RetryOnEventualConsistency ==
  [][\A i \in Slots :
       LET o == inv[i].payload.id
       IN (/\ PaidAccumula(inv[i])
           /\ inv[i].pc = "paid_tag_accumula"
           /\ inv[i].foGids = <<>>
           /\ foVisible[o]
           /\ inv'[i].pc = "done"
           /\ inv'[i].out # "ERROR handled")
          => \A f \in Range(FoOf[o]) : Issued(inv'[i].writes, "hold", f)]_vars

\* The outcomes with which handleFulfillmentCreate leaves before the merge.
MergeExits ==
  {"OK (no order_id)", "SKIP no tracking yet", "OK ignored (not SDA)",
   "SKIP no customer", "SKIP already merged"}

\* The trigger order as the invocation read it is express: by its shipping
\* method or by the tag SPEDISCI_ORA.
ReadExpress(iv) ==
  \/ shipping[iv.payload.order_id] = SHIPPING_SDA
  \/ TAG_SPEDISCI_ORA \in Range(MapTrim(Split(iv.tagsStr)))

\* C22: a finished fulfillments/create invocation returns the outcome of the
\* earliest exit condition that holds, in the order (1) no order id, (2) no
\* tracking number, (3) trigger order not express, (4) no customer id, (5)
\* trigger order already MERGE_OK; with (1) or (2) it has read nothing from the
\* gateway (so no gateway error can end it), and every exit has issued no
\* write.
C22_PreconditionOrder ==
  \A i \in Slots :
    LET iv == inv[i]
        o == iv.payload.order_id
    IN (iv.pc = "done" /\ IsFc(iv))
       => /\ IF o = Null
             THEN /\ iv.out = "OK (no order_id)"
                  /\ iv.tagsStr = <<>> /\ iv.customerId = Null
             ELSE IF iv.payload.tracking_number = Null
                     /\ iv.payload.tracking_numbers = <<>>
             THEN /\ iv.out = "SKIP no tracking yet"
                  /\ iv.tagsStr = <<>> /\ iv.customerId = Null
             ELSE \/ iv.out = "ERROR handled"
                  \/ IF ~ReadExpress(iv) THEN iv.out = "OK ignored (not SDA)"
                     ELSE IF customer[o] = Null THEN iv.out = "SKIP no customer"
                     ELSE IF TAG_MERGE_OK \in Range(MapTrim(Split(iv.tagsStr)))
                     THEN iv.out = "SKIP already merged"
                     ELSE iv.out \notin MergeExits
          /\ iv.out \in MergeExits => iv.writes = <<>>

\* A fulfillments/create event with tracking for an order that is not express
\* and has no customer was answered "not SDA", without a write.
C22_Witness ==
  \E i \in Slots :
    LET iv == inv[i]
        o == iv.payload.order_id
    IN /\ iv.pc = "done" /\ IsFc(iv)
       /\ o # Null
       /\ iv.payload.tracking_number # Null
       /\ ~ReadExpress(iv)
       /\ customer[o] = Null
       /\ iv.out = "OK ignored (not SDA)"
       /\ iv.writes = <<>>

\* The number of calls `op` on `target` among the writes ws.
Calls(ws, op, target) ==
  Cardinality({n \in 1..Len(ws) : ws[n].op = op /\ ws[n].target = target})

\* The tracking a fulfillment of the merge has to carry: the number of the
\* event, its carrier or "SDA", and its url if it has one.
EventTrackingInfo(payload) ==
  <<EventTracking(payload),
    IF payload.tracking_company = Null THEN "SDA" ELSE payload.tracking_company>>
    \o (IF payload.tracking_url # Null THEN <<payload.tracking_url>>
        ELSE IF payload.tracking_urls # <<>> THEN <<payload.tracking_urls[1]>>
        ELSE <<>>)

\* A merge invocation that has made its createFulfillment calls for the order
\* it is working on and is about to rewrite that order's tags.
CreatesDone(iv) == IsFc(iv) /\ iv.pc = "fc_tag"

C24_ReleaseHold ==
  [][\A i \in Slots :
       (IsFc(inv[i]) /\ inv[i].pc = "fc_release"
          /\ Len(inv'[i].writes) = Len(inv[i].writes) + 1)
       => /\ foStatus[inv[i].foGids[inv[i].k]] \notin {"CLOSED", "CANCELLED"}
          /\ inv'[i].pc = "fc_fos"
             => \A f \in Range(inv[i].foGids) :
                  Calls(inv'[i].writes, "release", f)
                    = IF foStatus[f] \in {"CLOSED", "CANCELLED"} THEN 0 ELSE 1]_vars

\* The orders of the mergeable set of a merge invocation.
Mergeable(iv) == {iv.giacenze[g].id : g \in 1..Len(iv.giacenze)}

\* The n-th write of iv is the tag rewrite of a merged order.
MergedTagWrite(iv, n) ==
  /\ IsFc(iv)
  /\ iv.writes[n].op = "tags"
  /\ iv.writes[n].target \in Mergeable(iv)
  /\ iv.writes[n].target # iv.payload.order_id

\* Every release-hold and createFulfillment call of iv on a unit of a merged
\* order comes before the tag rewrite of that order.
TagAfterCalls(iv) ==
  \A n \in 1..Len(iv.writes) :
    MergedTagWrite(iv, n)
    => \A m \in 1..Len(iv.writes) :
         (/\ iv.writes[m].op \in {"release", "create"}
          /\ iv.writes[m].target \in Range(FoOf[iv.writes[n].target]))
         => m < n

\* C25: a merge issues the tag rewrite of a merged order (HOLD removed,
\* MERGE_OK added) only after all its release-hold and createFulfillment calls
\* for that order; and in production mode, once a merge has rewritten the tags
\* of an order, every fulfillment unit of that order is cancelled or closed by
\* a fulfillment: none is left open or on hold.
C25_StepOrder ==
  \A i \in Slots :
    /\ TagAfterCalls(inv[i])
    /\ ~TEST_MODE
       => \A n \in 1..Len(inv[i].writes) :
            MergedTagWrite(inv[i], n)
            => \A f \in Range(FoOf[inv[i].writes[n].target]) :
                 foStatus[f] \in {"CLOSED", "CANCELLED"}

\* A hold or release-hold call of iv came back with userErrors.
Warned(iv) ==
  \E n \in 1..Len(iv.writes) :
    iv.writes[n].op \in {"hold", "release"} /\ iv.writes[n].res = "warning"

\* C26: with deliveries handled one after another and no failed gateway call,
\* an invocation in which a hold or release-hold call came back with
\* userErrors still ends with its success outcome and has made all its calls: a
\* paid invocation has issued a hold on every unit it read; a merge has issued a
\* release-hold and then, unless the unit ended closed or cancelled without it,
\* a createFulfillment on every unit it released, has rewritten the tags of
\* every order of the mergeable set, and has closed the trigger order with its
\* last write.
C26_WarningsDoNotAbort ==
  nErrors = 0
  => \A h \in 1..Len(hist) :
       LET iv == hist[h]
           last == iv.writes[Len(iv.writes)]
       IN Warned(iv)
          => IF iv.topic = "orders/paid"
             THEN /\ iv.out = "OK GIACENZA (test ok)"
                  /\ \A f \in Range(iv.foGids) : Calls(iv.writes, "hold", f) = 1
             ELSE /\ iv.out = "OK merge simulated (test ok)"
                  /\ \A n \in 1..Len(iv.writes) :
                       iv.writes[n].op = "release"
                       => \/ Issued(iv.writes, "create", iv.writes[n].target)
                          \/ foStatus[iv.writes[n].target]
                               \in {"CLOSED", "CANCELLED"}
                  /\ \A o \in Mergeable(iv) : Issued(iv.writes, "tags", o)
                  /\ last.op = "tags" /\ last.target = iv.payload.order_id
                  /\ last.res = "ok"

\* The first release-hold of a merge came back with userErrors (the unit A1
\* was not on hold); the merge went on to release A2, to fulfil both units, to
\* retag A and to close the trigger order B.
C26_Witness ==
  /\ nErrors = 0
  /\ hist # <<>>
  /\ LET iv == hist[Len(hist)]
     IN /\ IsFc(iv) /\ iv.payload.order_id = "B"
        /\ Len(iv.writes) = 6
        /\ iv.writes[1] = [op |-> "release", target |-> "A1", arg |-> <<>>,
                           res |-> "warning"]
        /\ iv.writes[2].op = "release" /\ iv.writes[2].target = "A2"
        /\ iv.writes[3].op = "create" /\ iv.writes[3].res = "ok"
        /\ iv.writes[4].op = "create" /\ iv.writes[4].res = "ok"
        /\ iv.writes[5].op = "tags" /\ iv.writes[5].target = "A"
        /\ iv.writes[6].op = "tags" /\ iv.writes[6].target = "B"
        /\ iv.out = "OK merge simulated (test ok)"

\* The order a write is made against: the order itself for a tag update, the
\* order of the unit for release-hold and createFulfillment.
OrderOf(w) ==
  IF w.op = "tags" THEN w.target
  ELSE CHOOSE o \in Orders : w.target \in Range(FoOf[o])

\* The orders a merge invocation may write to: its trigger order and the
\* orders of its mergeable set.
MergeFrame(iv) == {iv.payload.order_id} \cup Mergeable(iv)

\* C27: the mergeable set a merge invocation draws from the listing holds only
\* orders of the trigger order's customer that carry the HOLD tag and have no
\* fulfillment status (not partial, not fulfilled); every write of the
\* invocation is made against the trigger order or an order of that set; and a
\* step of the invocation leaves the tags, the fulfillment units and the
\* fulfillments of every other order as they were.
C27_MergeFrame ==
  [][\A i \in Slots :
       (IsFc(inv[i]) /\ inv[i].pc \notin {"idle", "done"} /\ inv'[i] # inv[i])
       => LET iv == inv'[i]
          IN /\ inv[i].pc = "fc_list"
                => \A o \in Mergeable(iv) :
                     /\ customer[o] = customer[iv.payload.order_id]
                     /\ TAG_GIACENZA \in tags[o]
                     /\ FulfillmentStatus(Platform, o) = Null
             /\ \A n \in 1..Len(iv.writes) : OrderOf(iv.writes[n]) \in MergeFrame(iv)
             /\ \A o \in Orders \ MergeFrame(iv) :
                  /\ tags'[o] = tags[o]
                  /\ \A f \in Range(FoOf[o]) :
                       /\ foStatus'[f] = foStatus[f]
                       /\ {r \in fulfillments' : r.fo = f}
                            = {r \in fulfillments : r.fo = f}]_vars

\* In production a merge triggered by B has merged A and ended, while C, an
\* order on hold of another customer, keeps its HOLD tag and its unit on hold.
C27_Witness ==
  \E i \in Slots :
    /\ ~TEST_MODE
    /\ IsFc(inv[i]) /\ inv[i].pc = "done"
    /\ inv[i].payload.order_id = "B"
    /\ inv[i].out = "OK merge simulated (test ok)"
    /\ Mergeable(inv[i]) = {"A"}
    /\ TAG_MERGE_OK \in tags["A"]
    /\ customer["C"] # customer["B"]
    /\ TAG_GIACENZA \in tags["C"]
    /\ foStatus["C1"] = "ON_HOLD"

\* C28: in production, whatever the interleaving of the merge invocations, no
\* fulfillment unit of a held order has received createFulfillment from more
\* than one of them.
C28_NoDoubleConsumption ==
  ~TEST_MODE
  => \A f \in FoIds :
       \A i, j \in Slots :
         (/\ IsFc(inv[i]) /\ IsFc(inv[j])
          /\ Issued(inv[i].writes, "create", f)
          /\ Issued(inv[j].writes, "create", f))
         => i = j

====
